---- MODULE Spec2Model ----
\* Model of tools/prompt-validator.py: the PromptValidator class and main().
\* Text is a sequence of one-character strings; a message is a sequence of
\* string fragments (the pieces an f-string concatenates).
EXTENDS Integers, Sequences, FiniteSets, TLC

VARIABLES
    fs,         \* the file system: path -> [status, content, lines]
    argv,       \* sys.argv[1:], a sequence of paths
    pc,         \* position of main(), or "api" when a client drives the class
    validator,  \* the PromptValidator instance: filepath, content, errors, warnings
    ret,        \* value returned by the last validate() (FALSE before any call)
    success,    \* value returned by the last print_report() (FALSE before any call)
    out,        \* standard output, a sequence of printed lines
    exit_code,  \* process exit status, -1 while running
    calls,      \* validate() calls made on the validator
    reports     \* print_report() calls made on the validator

vars == <<fs, argv, pc, validator, ret, success, out, exit_code, calls, reports>>

----------------------------------------------------------------------------
\* Bounds

MaxCalls == 2
MaxReports == 1
MaxArgs == 2

----------------------------------------------------------------------------
\* Characters

LOWER == <<"a", "b", "c", "d", "e", "f", "g", "h", "i", "j", "k", "l", "m",
           "n", "o", "p", "q", "r", "s", "t", "u", "v", "w", "x", "y", "z">>
UPPER == <<"A", "B", "C", "D", "E", "F", "G", "H", "I", "J", "K", "L", "M",
           "N", "O", "P", "Q", "R", "S", "T", "U", "V", "W", "X", "Y", "Z">>

Range(s) == {s[i] : i \in DOMAIN s}

ToLower == [c \in Range(UPPER) |-> LOWER[CHOOSE i \in DOMAIN UPPER : UPPER[i] = c]]
ToUpper == [c \in Range(LOWER) |-> UPPER[CHOOSE i \in DOMAIN LOWER : LOWER[i] = c]]

Lower(c) == IF c \in DOMAIN ToLower THEN ToLower[c] ELSE c
Upper(c) == IF c \in DOMAIN ToUpper THEN ToUpper[c] ELSE c
IsAlpha(c) == c \in DOMAIN ToLower \/ c \in DOMAIN ToUpper

\* the characters \s matches
IsSpace(c) == c \in {" ", "\t", "\n", "\r"}

\* the backquote character (it cannot be written inside a TLA+ string)
BQ == "backquote"

----------------------------------------------------------------------------
\* re.search(pattern, text, re.IGNORECASE) for patterns made of literal
\* characters and the element \s+

WS == "\\s+"

RECURSIVE MatchAt(_, _, _, _)
MatchAt(pat, k, s, i) ==
    IF k > Len(pat) THEN TRUE
    ELSE IF i > Len(s) THEN FALSE
    ELSE IF pat[k] = WS
         THEN IsSpace(s[i])
              /\ (MatchAt(pat, k, s, i + 1) \/ MatchAt(pat, k + 1, s, i + 1))
         ELSE Lower(s[i]) = Lower(pat[k]) /\ MatchAt(pat, k + 1, s, i + 1)

\* the same matcher without re.IGNORECASE
RECURSIVE MatchAtCaseSensitive(_, _, _, _)
MatchAtCaseSensitive(pat, k, s, i) ==
    IF k > Len(pat) THEN TRUE
    ELSE IF i > Len(s) THEN FALSE
    ELSE IF pat[k] = WS
         THEN IsSpace(s[i])
              /\ (MatchAtCaseSensitive(pat, k, s, i + 1)
                  \/ MatchAtCaseSensitive(pat, k + 1, s, i + 1))
         ELSE s[i] = pat[k] /\ MatchAtCaseSensitive(pat, k + 1, s, i + 1)

re_search_case_sensitive(pat, s) ==
    \E i \in 1..Len(s) : MatchAtCaseSensitive(pat, 1, s, i)

re_search(pat, s) == \E i \in 1..Len(s) : MatchAt(pat, 1, s, i)

\* sub in s, for a non-empty sub
Contains(sub, s) ==
    \E i \in 1..(Len(s) - Len(sub) + 1) :
        \A j \in 1..Len(sub) : s[i + j - 1] = sub[j]

\* str.replace(old, new) for single characters
Replace(s, old, new) == [i \in DOMAIN s |-> IF s[i] = old THEN new ELSE s[i]]

\* str.title(): a letter that follows a non-letter is upper-cased, any other
\* letter is lower-cased
Title(s) ==
    [i \in DOMAIN s |->
        IF i = 1 \/ ~IsAlpha(s[i - 1]) THEN Upper(s[i]) ELSE Lower(s[i])]

----------------------------------------------------------------------------
\* PromptValidator.REQUIRED_SECTIONS, in dict (insertion) order

context == <<"c", "o", "n", "t", "e", "x", "t">>
task == <<"t", "a", "s", "k">>
requirements == <<"r", "e", "q", "u", "i", "r", "e", "m", "e", "n", "t", "s">>
validation == <<"v", "a", "l", "i", "d", "a", "t", "i", "o", "n">>
output_format == <<"o", "u", "t", "p", "u", "t", "_", "f", "o", "r", "m", "a", "t">>
security == <<"s", "e", "c", "u", "r", "i", "t", "y">>

REQUIRED_SECTIONS == <<
    [name |-> context,
     pattern |-> <<"#", "#", WS, "C", "o", "n", "t", "e", "x", "t">>],
    [name |-> task,
     pattern |-> <<"#", "#", WS, "T", "a", "s", "k">>],
    [name |-> requirements,
     pattern |-> <<"#", "#", WS, "R", "e", "q", "u", "i", "r", "e", "m", "e", "n", "t", "s">>],
    [name |-> validation,
     pattern |-> <<"#", "#", WS, "V", "a", "l", "i", "d", "a", "t", "i", "o", "n">>],
    [name |-> output_format,
     pattern |-> <<"#", "#", WS, "O", "u", "t", "p", "u", "t", WS, "F", "o", "r", "m", "a", "t">>],
    [name |-> security,
     pattern |-> <<"#", "#", WS, "S", "e", "c", "u", "r", "i", "t", "y">>] >>

\* the list local to check_specificity
generic_phrases == <<
    <<"b", "u", "i", "l", "d", WS, "m", "e", WS, "a">>,
    <<"c", "r", "e", "a", "t", "e", WS, "a", WS, "s", "i", "m", "p", "l", "e">>,
    <<"m", "a", "k", "e", WS, "i", "t", WS, "w", "o", "r", "k">>,
    <<"f", "i", "x", WS, "t", "h", "i", "s">> >>

GenericWarning == <<"Generic phrase detected - ensure specificity (Rule 1)">>
ExamplesWarning == <<"No code examples found - consider adding examples (Rule 9)">>

----------------------------------------------------------------------------
\* Paths and the file system

\* str(path): the components joined by "/"
RECURSIVE PathStr(_)
PathStr(p) ==
    IF Len(p) = 0 THEN <<".">>
    ELSE IF Len(p) = 1 THEN p
    ELSE <<Head(p), "/">> \o PathStr(Tail(p))

\* Path.name: the last component
PathName(p) == IF Len(p) = 0 THEN "" ELSE p[Len(p)]

\* open(path, 'r', encoding='utf-8') followed by f.read(): the exception
\* raised, or "none" and the text read
open_read(files, path) ==
    LET f == files[path] IN
    CASE f.status = "ok"          -> [exc |-> "none", data |-> f.content]
      [] f.status = "absent"      -> [exc |-> "FileNotFoundError", data |-> <<>>]
      [] f.status = "unreadable"  -> [exc |-> "PermissionError", data |-> <<>>]
      [] f.status = "undecodable" -> [exc |-> "UnicodeDecodeError", data |-> <<>>]

\* str(e) of the exceptions other than FileNotFoundError
ExcStr(exc, path) ==
    IF exc = "PermissionError"
    THEN <<"[Errno 13] Permission denied: ">> \o PathStr(path)
    ELSE <<"'utf-8' codec can't decode byte">>

----------------------------------------------------------------------------
\* class PromptValidator; a method is an operator from the object (and its
\* arguments) to the object afterwards and the value returned

PromptValidator(filepath) ==
    [filepath |-> filepath, content |-> <<>>, errors |-> <<>>, warnings |-> <<>>]

load_file(self, files) ==
    LET r == open_read(files, self.filepath) IN
    IF r.exc = "none"
    THEN [self |-> [self EXCEPT !.content = r.data], ret |-> TRUE]
    ELSE IF r.exc = "FileNotFoundError"
    THEN [self |-> [self EXCEPT !.errors =
                       Append(@, <<"File not found: ">> \o PathStr(self.filepath))],
          ret |-> FALSE]
    ELSE [self |-> [self EXCEPT !.errors =
                       Append(@, <<"Error reading file: ">>
                                     \o ExcStr(r.exc, self.filepath))],
          ret |-> FALSE]

MissingSection(section_name) ==
    <<"Missing required section: ">> \o Title(Replace(section_name, "_", " "))

\* the loop of check_required_sections from table entry k on
RECURSIVE SectionErrors(_, _)
SectionErrors(content, k) ==
    IF k > Len(REQUIRED_SECTIONS) THEN <<>>
    ELSE (IF ~re_search(REQUIRED_SECTIONS[k].pattern, content)
          THEN <<MissingSection(REQUIRED_SECTIONS[k].name)>>
          ELSE <<>>)
         \o SectionErrors(content, k + 1)

check_required_sections(self) ==
    [self EXCEPT !.errors = @ \o SectionErrors(self.content, 1)]

\* the loop with a break after the first matching phrase
RECURSIVE PhraseWarningsFirstOnly(_, _)
PhraseWarningsFirstOnly(content, k) ==
    IF k > Len(generic_phrases) THEN <<>>
    ELSE IF re_search(generic_phrases[k], content) THEN <<GenericWarning>>
    ELSE PhraseWarningsFirstOnly(content, k + 1)

\* the loop of check_specificity from phrase k on
RECURSIVE PhraseWarnings(_, _)
PhraseWarnings(content, k) ==
    IF k > Len(generic_phrases) THEN <<>>
    ELSE (IF re_search(generic_phrases[k], content)
          THEN <<GenericWarning>>
          ELSE <<>>)
         \o PhraseWarnings(content, k + 1)

check_specificity(self) ==
    [self EXCEPT !.warnings = @ \o PhraseWarnings(self.content, 1)]

\* check_examples looking for two backquotes instead of three
check_examples_two_backquotes(self) ==
    IF ~Contains(<<BQ, BQ>>, self.content)
    THEN [self EXCEPT !.warnings = Append(@, ExamplesWarning)]
    ELSE self

check_examples(self) ==
    IF ~Contains(<<BQ, BQ, BQ>>, self.content)
    THEN [self EXCEPT !.warnings = Append(@, ExamplesWarning)]
    ELSE self

\* validate running the checks whether or not the file was loaded
validate_without_short_circuit(self, files) ==
    LET l == load_file(self, files)
        s == check_examples(check_specificity(check_required_sections(l.self)))
    IN [self |-> s, ret |-> Len(s.errors) = 0]

\* validate treating a warning as a failure
validate_counting_warnings(self, files) ==
    LET l == load_file(self, files) IN
    IF ~l.ret
    THEN [self |-> l.self, ret |-> FALSE]
    ELSE LET s == check_examples(check_specificity(check_required_sections(l.self)))
         IN [self |-> s, ret |-> Len(s.errors) = 0 /\ Len(s.warnings) = 0]

validate(self, files) ==
    LET l == load_file(self, files) IN
    IF ~l.ret
    THEN [self |-> l.self, ret |-> FALSE]
    ELSE LET s == check_examples(check_specificity(check_required_sections(l.self)))
         IN [self |-> s, ret |-> Len(s.errors) = 0]

Bullets(items) == [i \in DOMAIN items |-> <<"  - ">> \o items[i]]

RULE == "============================================================"

ReportHeader(self) ==
    << <<"\n", RULE>>, <<"Validating: ", PathName(self.filepath)>>, <<RULE, "\n">> >>

ErrorsBlock(self) ==
    IF Len(self.errors) # 0
    THEN << <<"ERRORS:">> >> \o Bullets(self.errors) \o << <<>> >>
    ELSE <<>>

WarningsBlock(self) ==
    IF Len(self.warnings) # 0
    THEN << <<"WARNINGS:">> >> \o Bullets(self.warnings) \o << <<>> >>
    ELSE <<>>

\* print_report returning whether everything passed
print_report_all_passed(self) ==
    IF Len(self.errors) = 0 /\ Len(self.warnings) = 0
    THEN [printed |-> ReportHeader(self) \o << <<"All checks passed!">> >>,
          ret |-> TRUE]
    ELSE [printed |-> ReportHeader(self) \o ErrorsBlock(self) \o WarningsBlock(self),
          ret |-> FALSE]

\* print_report with the two blocks in the other order
print_report_warnings_first(self) ==
    IF Len(self.errors) = 0 /\ Len(self.warnings) = 0
    THEN [printed |-> ReportHeader(self) \o << <<"All checks passed!">> >>,
          ret |-> TRUE]
    ELSE [printed |-> ReportHeader(self) \o WarningsBlock(self) \o ErrorsBlock(self),
          ret |-> Len(self.errors) = 0]

\* print_report leaves the object unchanged: the lines printed and the value
\* returned
print_report(self) ==
    IF Len(self.errors) = 0 /\ Len(self.warnings) = 0
    THEN [printed |-> ReportHeader(self) \o << <<"All checks passed!">> >>,
          ret |-> TRUE]
    ELSE [printed |-> ReportHeader(self) \o ErrorsBlock(self) \o WarningsBlock(self),
          ret |-> Len(self.errors) = 0]

----------------------------------------------------------------------------
\* Input documents: a document is a selection of the lines below, in the
\* order listed or reversed, joined by newlines.  Each line records which
\* headings, which generic phrases and whether a code fence its text holds.

Lines == <<
    [text |-> <<"#", "#", "#", " ", "S", "E", "C", "U", "R", "I", "T", "Y">>,
     heads |-> {security}, phrases |-> {}, fence |-> FALSE],
    [text |-> <<"#", "#", " ", "o", "u", "t", "p", "u", "t", " ", " ", "f", "o", "r", "m", "a", "t">>,
     heads |-> {output_format}, phrases |-> {}, fence |-> FALSE],
    [text |-> <<"#", "#", " ", "C", "o", "n", "t", "e", "x", "t">>,
     heads |-> {context}, phrases |-> {}, fence |-> FALSE],
    [text |-> <<"#", "#", "\t", "t", "a", "s", "k">>,
     heads |-> {task}, phrases |-> {}, fence |-> FALSE],
    [text |-> <<"#", "#", " ", "R", "e", "q", "u", "i", "r", "e", "m", "e", "n", "t", "s", ":">>,
     heads |-> {requirements}, phrases |-> {}, fence |-> FALSE],
    [text |-> <<"#", "#", " ", "v", "a", "l", "i", "d", "a", "t", "i", "o", "n", " ", "r", "u", "l", "e", "s">>,
     heads |-> {validation}, phrases |-> {}, fence |-> FALSE],
    [text |-> <<"B", "u", "i", "l", "d", " ", "m", "e", " ", "a">>,
     heads |-> {}, phrases |-> {1}, fence |-> FALSE],
    [text |-> <<"C", "r", "e", "a", "t", "e", " ", "a", " ", "s", "i", "m", "p", "l", "e", ";", " ",
                "M", "A", "K", "E", " ", "I", "T", "\t", "W", "O", "R", "K">>,
     heads |-> {}, phrases |-> {2, 3}, fence |-> FALSE],
    [text |-> <<"f", "i", "x", " ", " ", "t", "h", "i", "s">>,
     heads |-> {}, phrases |-> {4}, fence |-> FALSE],
    [text |-> <<BQ, BQ, BQ>>,
     heads |-> {}, phrases |-> {}, fence |-> TRUE],
    [text |-> <<"#", "#", "C", "o", "n", "t", "e", "x", "t", " ", "#", " ", "T", "a", "s", "k", " ", BQ, BQ>>,
     heads |-> {}, phrases |-> {}, fence |-> FALSE] >>

\* the selected lines from index k on, going up (step 1) or down (step -1)
RECURSIVE JoinLines(_, _, _)
JoinLines(sel, k, step) ==
    IF k < 1 \/ k > Len(Lines) THEN <<>>
    ELSE LET rest == JoinLines(sel, k + step, step) IN
         IF k \notin sel THEN rest
         ELSE IF rest = <<>> THEN Lines[k].text
         ELSE Lines[k].text \o <<"\n">> \o rest

Document(sel, rev) ==
    [status |-> "ok",
     content |-> IF rev THEN JoinLines(sel, Len(Lines), -1) ELSE JoinLines(sel, 1, 1),
     lines |-> sel]

AbsentFile == [status |-> "absent", content |-> <<>>, lines |-> {}]
UnreadableFile == [status |-> "unreadable", content |-> <<>>, lines |-> {}]
UndecodableFile == [status |-> "undecodable", content |-> <<>>, lines |-> {}]

Documents == {Document(sel, rev) : sel \in SUBSET (1..Len(Lines)), rev \in BOOLEAN}

P_backend == <<"prompts", "templates", "backend-starter.md">>
P_frontend == <<"prompts", "templates", "frontend-starter.md">>
P_draft == <<"draft.md">>
P_missing == <<"missing.md">>
P_locked == <<"secrets", "locked.md">>

Paths == {P_backend, P_frontend, P_draft, P_missing, P_locked}

\* the files on disk when main() runs
Disk ==
    [p \in Paths |->
        CASE p = P_backend  -> Document({1, 2, 3, 4, 5, 6, 10}, FALSE)
          [] p = P_frontend -> Document({1, 2, 3, 4, 5, 6, 7}, TRUE)
          [] p = P_draft    -> Document({3, 11}, FALSE)
          [] p = P_missing  -> AbsentFile
          [] p = P_locked   -> UnreadableFile]

\* the inputs of a client of the class: every document under one path, and
\* under every path the files on disk and the files that cannot be read
Inputs ==
    ({P_backend} \X Documents)
        \cup (Paths \X ({Disk[p] : p \in Paths}
                          \cup {AbsentFile, UnreadableFile, UndecodableFile}))

RECURSIVE SeqsUpTo(_, _)
SeqsUpTo(S, n) ==
    IF n = 0 THEN {<<>>}
    ELSE LET shorter == SeqsUpTo(S, n - 1) IN
         shorter \cup {Append(s, x) : s \in shorter, x \in S}

----------------------------------------------------------------------------
\* A client of the class: one validator on one file, validate() and
\* print_report() called in any order

Init ==
    /\ \E in \in Inputs :
        /\ fs = [q \in Paths |-> IF q = in[1] THEN in[2] ELSE AbsentFile]
        /\ validator = PromptValidator(in[1])
    /\ argv = <<>>
    /\ pc = "api"
    /\ ret = FALSE
    /\ success = FALSE
    /\ out = <<>>
    /\ exit_code = -1
    /\ calls = 0
    /\ reports = 0

Validate ==
    /\ pc = "api"
    /\ calls < MaxCalls
    /\ LET r == validate(validator, fs) IN
        /\ validator' = r.self
        /\ ret' = r.ret
    /\ calls' = calls + 1
    /\ UNCHANGED <<fs, argv, pc, success, out, exit_code, reports>>

Report ==
    /\ pc = "api"
    /\ reports < MaxReports
    /\ LET r == print_report(validator) IN
        /\ out' = out \o r.printed
        /\ success' = r.ret
    /\ reports' = reports + 1
    /\ UNCHANGED <<fs, argv, pc, validator, ret, exit_code, calls>>

Next == Validate \/ Report

Spec == Init /\ [][Next]_vars

----------------------------------------------------------------------------
\* main(), one step per statement

InitMain ==
    /\ fs = Disk
    /\ argv \in SeqsUpTo(Paths, MaxArgs)
    /\ pc = "start"
    /\ validator = PromptValidator(<<>>)
    /\ ret = FALSE
    /\ success = FALSE
    /\ out = <<>>
    /\ exit_code = -1
    /\ calls = 0
    /\ reports = 0

\* len(sys.argv) < 2: usage and sys.exit(1)
MainUsage ==
    /\ pc = "start"
    /\ Len(argv) < 1
    /\ out' = out \o << <<"Usage: python tools/prompt-validator.py <prompt-file>">>,
                        <<"Example: python tools/prompt-validator.py prompts/templates/backend-starter.md">> >>
    /\ exit_code' = 1
    /\ pc' = "done"
    /\ UNCHANGED <<fs, argv, validator, ret, success, calls, reports>>

\* filepath = sys.argv[1]; validator = PromptValidator(filepath)
MainConstruct ==
    /\ pc = "start"
    /\ ~(Len(argv) < 1)
    /\ validator' = PromptValidator(argv[1])
    /\ pc' = "validate"
    /\ UNCHANGED <<fs, argv, ret, success, out, exit_code, calls, reports>>

\* validator.validate()
MainValidate ==
    /\ pc = "validate"
    /\ LET r == validate(validator, fs) IN
        /\ validator' = r.self
        /\ ret' = r.ret
    /\ calls' = calls + 1
    /\ pc' = "report"
    /\ UNCHANGED <<fs, argv, success, out, exit_code, reports>>

\* success = validator.print_report()
MainReport ==
    /\ pc = "report"
    /\ LET r == print_report(validator) IN
        /\ out' = out \o r.printed
        /\ success' = r.ret
    /\ reports' = reports + 1
    /\ pc' = "exit"
    /\ UNCHANGED <<fs, argv, validator, ret, exit_code, calls>>

\* if not success: print the pointer, sys.exit(1); else sys.exit(0)
MainExit ==
    /\ pc = "exit"
    /\ IF ~success
       THEN /\ out' = Append(out, <<"\n", "See Rules 1-10 in README.md for prompt engineering guidelines">>)
            /\ exit_code' = 1
       ELSE /\ out' = out
            /\ exit_code' = 0
    /\ pc' = "done"
    /\ UNCHANGED <<fs, argv, validator, ret, success, calls, reports>>

NextMain == MainUsage \/ MainConstruct \/ MainValidate \/ MainReport \/ MainExit

SpecMain == InitMain /\ [][NextMain]_vars

----------------------------------------------------------------------------
\* What the input holds, read off the lines it was made of

TheFile == fs[validator.filepath]
Loaded == TheFile.status = "ok"

HeadsIn(f) == UNION {Lines[i].heads : i \in f.lines}
PhrasesIn(f) == UNION {Lines[i].phrases : i \in f.lines}
FenceIn(f) == \E i \in f.lines : Lines[i].fence

SectionOrder == <<context, task, requirements, validation, output_format, security>>

Label(s) ==
    CASE s = context       -> <<"C", "o", "n", "t", "e", "x", "t">>
      [] s = task          -> <<"T", "a", "s", "k">>
      [] s = requirements  -> <<"R", "e", "q", "u", "i", "r", "e", "m", "e", "n", "t", "s">>
      [] s = validation    -> <<"V", "a", "l", "i", "d", "a", "t", "i", "o", "n">>
      [] s = output_format -> <<"O", "u", "t", "p", "u", "t", " ", "F", "o", "r", "m", "a", "t">>
      [] s = security      -> <<"S", "e", "c", "u", "r", "i", "t", "y">>

MissingMessage(s) == <<"Missing required section: ">> \o Label(s)

Missing(f) == {s \in Range(SectionOrder) : s \notin HeadsIn(f)}

IsMissing(s) == s \in Missing(TheFile)

MissingInOrder == SelectSeq(SectionOrder, IsMissing)

Count(seq, x) == Cardinality({i \in DOMAIN seq : seq[i] = x})

Times(n, x) == [i \in 1..n |-> x]

----------------------------------------------------------------------------
\* C1: after a first validate() on a fresh validator whose document loaded,
\* the error list has exactly one 'Missing required section' entry for each
\* required section whose heading the document lacks and nothing else, and
\* validate() returned false iff some section is missing.
C1_OneErrorPerMissingSection ==
    (calls = 1 /\ Loaded) =>
        /\ Len(validator.errors) = Cardinality(Missing(TheFile))
        /\ Range(validator.errors) = {MissingMessage(s) : s \in Missing(TheFile)}
        /\ ret = (Missing(TheFile) = {})

C1_Witness ==
    /\ calls = 1
    /\ Loaded
    /\ Missing(TheFile) = {task, output_format, security}
    /\ Len(validator.errors) = 3
    /\ ret = FALSE

\* C2: a second validate() on the same validator and the same unmodified file
\* leaves the error list, the warning list and the return value as the first
\* call left them.
C2_Idempotent ==
    [][(calls >= 1 /\ calls' = calls + 1) =>
          /\ validator'.errors = validator.errors
          /\ validator'.warnings = validator.warnings
          /\ ret' = ret]_vars

\* C3 as stated: after validate() the warning list holds at most one
\* 'Generic phrase detected' warning.
C3_AtMostOneGenericWarning ==
    calls = 1 => Count(validator.warnings, GenericWarning) <= 1

\* C3 amended: after a first validate() on a loaded document the warning list
\* holds one 'Generic phrase detected' warning for each of the four generic
\* phrase patterns the document matches (so at most four, and at most one
\* only when at most one pattern matches).
C3_OneWarningPerMatchingPattern ==
    (calls = 1 /\ Loaded) =>
        Count(validator.warnings, GenericWarning) = Cardinality(PhrasesIn(TheFile))

C3_Witness ==
    /\ calls = 1
    /\ Loaded
    /\ PhrasesIn(TheFile) = {2, 3}
    /\ Count(validator.warnings, GenericWarning) = 2

\* C4: when the load fails, the first validate() returns false, runs no check
\* (no content, no warning) and leaves exactly one error: 'File not found'
\* with the path for a missing file, 'Error reading file' for any other
\* failure.
C4_LoadFailureShortCircuits ==
    (calls = 1 /\ ~Loaded) =>
        /\ ret = FALSE
        /\ validator.warnings = <<>>
        /\ validator.content = <<>>
        /\ Len(validator.errors) = 1
        /\ TheFile.status = "absent" =>
              validator.errors[1] = <<"File not found: ">> \o PathStr(validator.filepath)
        /\ TheFile.status # "absent" =>
              validator.errors[1][1] = "Error reading file: "

C4_Witness ==
    /\ calls = 1
    /\ TheFile.status = "absent"
    /\ validator.filepath = P_locked
    /\ validator.errors = << <<"File not found: ", "secrets", "/", "locked.md">> >>
    /\ ret = FALSE

\* C5: when main() is done, a report was printed for every path argument, in
\* argument order, one each.
C5_EveryArgumentValidated ==
    (pc = "done" /\ Len(argv) >= 1) =>
        LET IsHeader(line) == Len(line) = 2 /\ line[1] = "Validating: "
        IN SelectSeq(out, IsHeader)
               = [i \in 1..Len(argv) |-> <<"Validating: ", PathName(argv[i])>>]

\* whether validating the file under path p reports an error
FileHasError(p) == Disk[p].status # "ok" \/ Missing(Disk[p]) # {}

\* C6: the exit status is 1 if no path was given or any given file has an
\* error, and 0 otherwise.
C6_ExitStatus ==
    pc = "done" =>
        exit_code = IF Len(argv) = 0 \/ (\E i \in DOMAIN argv : FileHasError(argv[i]))
                    THEN 1 ELSE 0

\* C7: validate() returns true iff the error list is empty; a document with
\* all six headings validates whatever its phrases and fences, and with
\* 'build me a' in it the warning list is not empty.
C7_ValidityDependsOnErrorsOnly ==
    calls >= 1 =>
        /\ ret = (validator.errors = <<>>)
        /\ (Loaded /\ Missing(TheFile) = {}) =>
              /\ ret = TRUE
              /\ 1 \in PhrasesIn(TheFile) => validator.warnings # <<>>

C7_Witness ==
    /\ calls = 1
    /\ Loaded
    /\ Missing(TheFile) = {}
    /\ 1 \in PhrasesIn(TheFile)
    /\ ~FenceIn(TheFile)
    /\ ret = TRUE
    /\ Len(validator.warnings) >= 2

\* C8: print_report() called after validate() returns what validate()
\* returned and leaves both lists as they were.
C8_ReportReturnsValidateResult ==
    [][(reports' = reports + 1 /\ calls >= 1) =>
          /\ success' = ret
          /\ validator'.errors = validator.errors
          /\ validator'.warnings = validator.warnings]_vars

C8_Witness ==
    /\ calls = 1
    /\ reports = 1
    /\ Loaded
    /\ <<"WARNINGS:">> \in Range(out)
    /\ validator.warnings # <<>>
    /\ success = TRUE
    /\ ret = TRUE

\* C9: after a first validate() on a loaded document the warning list holds
\* the 'No code examples found' warning once if the document has no run of
\* three backquotes and not at all if it has one, and every error is a
\* missing-section error.
C9_ExamplesWarning ==
    (calls = 1 /\ Loaded) =>
        /\ Count(validator.warnings, ExamplesWarning)
               = IF FenceIn(TheFile) THEN 0 ELSE 1
        /\ \A i \in DOMAIN validator.errors :
               validator.errors[i][1] = "Missing required section: "

C9_Witness ==
    /\ calls = 1
    /\ Loaded
    /\ 11 \in TheFile.lines
    /\ ~FenceIn(TheFile)
    /\ Count(validator.warnings, ExamplesWarning) = 1

\* the report of errs and warns, line by line, after the three header lines
RenderedAs(body, errs, warns) ==
    LET ne == Len(errs)
        nw == Len(warns)
        eb == IF ne > 0 THEN ne + 2 ELSE 0
        wb == IF nw > 0 THEN nw + 2 ELSE 0
    IN IF ne = 0 /\ nw = 0
       THEN body = << <<"All checks passed!">> >>
       ELSE /\ Len(body) = eb + wb
            /\ <<"All checks passed!">> \notin Range(body)
            /\ ne > 0 =>
                  /\ body[1] = <<"ERRORS:">>
                  /\ \A i \in 1..ne : body[1 + i] = <<"  - ">> \o errs[i]
                  /\ body[ne + 2] = <<>>
            /\ ne = 0 => <<"ERRORS:">> \notin Range(body)
            /\ nw > 0 =>
                  /\ body[eb + 1] = <<"WARNINGS:">>
                  /\ \A i \in 1..nw : body[eb + 1 + i] = <<"  - ">> \o warns[i]
                  /\ body[eb + nw + 2] = <<>>
            /\ nw = 0 => <<"WARNINGS:">> \notin Range(body)

\* C10: the first validate() on a loaded document leaves the missing-section
\* errors in table order and the generic-phrase warnings before the
\* missing-examples warning; print_report() prints the header, then 'All
\* checks passed!' exactly when both lists are empty, else the ERRORS block
\* (if there are errors) and then the WARNINGS block (if there are warnings),
\* each listing its whole list in order.
C10_InsertionOrder ==
    [][/\ (calls = 0 /\ calls' = 1 /\ Loaded) =>
            /\ validator'.errors
                   = [i \in DOMAIN MissingInOrder |-> MissingMessage(MissingInOrder[i])]
            /\ validator'.warnings
                   = Times(Cardinality(PhrasesIn(TheFile)), GenericWarning)
                       \o (IF FenceIn(TheFile) THEN <<>> ELSE <<ExamplesWarning>>)
       /\ (reports' = reports + 1) =>
            /\ Len(out') >= Len(out) + 4
            /\ SubSeq(out', 1, Len(out)) = out
            /\ out'[Len(out) + 2] = <<"Validating: ", PathName(validator.filepath)>>
            /\ RenderedAs(SubSeq(out', Len(out) + 4, Len(out')),
                          validator.errors, validator.warnings)]_vars

C10_Witness ==
    /\ calls = 1
    /\ reports = 1
    /\ Loaded
    /\ Len(validator.errors) >= 2
    /\ Len(validator.warnings) >= 3
    /\ out[4] = <<"ERRORS:">>
    /\ out[Len(validator.errors) + 6] = <<"WARNINGS:">>
    /\ Len(out) = Len(validator.errors) + Len(validator.warnings) + 7

====
